---- MODULE Spec2Model ----
(***************************************************************************)
(* Model of SensorDataManager (SensorDataManager.h / SensorDataManager.cpp) *)
(* and of MedianStrategy::compute (MedianStrategy.h).                       *)
(*                                                                         *)
(* The specifications of the module:                                       *)
(*   Spec        the three public operations as atomic handlers (each one  *)
(*               runs wholly under data_mutex);                            *)
(*   SpecThreads the harness of unit_tests_microtec.cpp: a density writer, *)
(*               a position writer and readers, every handler split into   *)
(*               its lock / loop / append / unlock steps;                  *)
(*   SpecThreadsFair  SpecThreads under a fair scheduler;                  *)
(*   SpecMedian  MedianStrategy::compute on bounded input vectors;         *)
(*   SpecInterpolate  interpolate_position on retained position buffers    *)
(*               that hold large values;                                   *)
(*   SpecAggregate  CalculateDensityValues on density buffers that hold    *)
(*               any int;                                                  *)
(*   SpecTrim    the insert operations on timestamps at the window's edge  *)
(*               and near the lower end of int;                            *)
(*   SpecLocate  the search of interpolate_position for the samples        *)
(*               around a time, on buffers with repeated timestamps.       *)
(* A sample is the std::pair <<first, second>> = <<time_uS, value>>.       *)
(***************************************************************************)
EXTENDS Integers, Sequences, FiniteSets, TLC

VARIABLES
    density_buffer,     \* std::deque<std::pair<int,int>>  {time_uS, density}
    position_buffer,    \* std::deque<std::pair<int,int>>  {time_uS, position_mm}
    mean_density,       \* out-parameter of CalculateDensityValues
    min_density,        \* out-parameter of CalculateDensityValues
    median_density,     \* out-parameter of CalculateDensityValues
    last_call,          \* the most recent completed public call and its arguments
    n_density,          \* number of MeasureDensityReady calls made so far
    n_position,         \* number of MeasurePositionReady calls made so far
    last_density_time,  \* time_uS of the latest density call (caller side)
    last_position_time, \* time_uS of the latest position call (caller side)
    data_mutex,         \* std::mutex: "free" or the thread that holds it
    pc,                 \* SpecThreads: position of every thread
    frame,              \* SpecThreads: arguments and locals of every thread's call
    snapshot,           \* SpecThreads: the buffers as the reader's lock_guard found them
    data,               \* SpecMedian: the vector handed to MedianStrategy::compute
    lower,              \* SpecMedian: HeapMedian max-heap (as a sequence, top first)
    upper,              \* SpecMedian: HeapMedian min-heap (as a sequence, top first)
    heap_i,             \* SpecMedian: number of elements HeapMedian has consumed
    medians,            \* SpecMedian: the value returned per algorithm
    interpolated        \* SpecInterpolate: the value returned per time_us;
                        \* SpecLocate: the position of 'it' per time_us

vars == <<density_buffer, position_buffer, mean_density, min_density,
          median_density, last_call, n_density, n_position,
          last_density_time, last_position_time, data_mutex, pc, frame,
          snapshot, data, lower, upper, heap_i, medians, interpolated>>

managerVars == <<density_buffer, position_buffer>>
outVars     == <<mean_density, min_density, median_density>>
callerVars  == <<n_density, n_position, last_density_time, last_position_time>>
threadVars  == <<data_mutex, pc, frame, snapshot>>
medianVars  == <<data, lower, upper, heap_i, medians>>
pureVars    == <<medianVars, interpolated>>

-----------------------------------------------------------------------------
(* Program constants *)

WINDOW_US == 5000000
INT_MAX == 2147483647
INT_MIN == -INT_MAX - 1
NO_POSITION == -1

(* Bounds of the model *)

MaxDensity == 3     \* density inserts per behaviour
MaxPosition == 2    \* position inserts per behaviour
MaxLen == 4         \* longest vector given to MedianStrategy::compute
MaxCalls == 2       \* inserts made by each writer thread of SpecThreads
MaxQueries == 1     \* queries made by each reader thread of SpecThreads
MaxSamples == 4     \* samples of the position buffers of SpecLocate

(* Inputs *)

Times == {0, 1000, 2000, 6000000}            \* density timestamps
PositionTimes == {0, 2000, 6000000}          \* position timestamps
Densities == {10, 20, 30}
Positions == {0, 100}
Intervals == {<<0, 50>>, <<-1, 100>>, <<100, 0>>}
MedianValues == {10, 20, 30}
ThreadTimes == {0, 1000, 6000000}
ThreadDensities == {10, 20}
ThreadPositions == {0, 100}
ThreadIntervals == {<<0, 50>>, <<-1, 100>>}

-----------------------------------------------------------------------------
(* std::pair accessors and deque helpers *)

first(s) == s[1]
second(s) == s[2]
front(buf) == buf[1]
back(buf) == buf[Len(buf)]
pop_front(buf) == Tail(buf)

(* An emplace that puts the sample at the head. *)
emplace_front(buf, t, v) == <<<<t, v>>>> \o buf

emplace_back(buf, t, v) == Append(buf, <<t, v>>)

(* int + int and int - int.  Overflow of a signed int is undefined; the    *)
(* build of build.sh (g++ -g, no -ftrapv, no sanitizer) has one outcome,   *)
(* the two's-complement result modulo 2^32, which is the value given here. *)
IntAdd(a, b) ==
    IF b > 0 /\ a > INT_MAX - b
    THEN (a - INT_MAX - 1) + (b - INT_MAX - 1)
    ELSE IF b < 0 /\ a < INT_MIN - b
    THEN (a + INT_MAX + 1) + (b + INT_MAX + 1)
    ELSE a + b

IntSub(a, b) ==
    IF b < 0 /\ a > INT_MAX + b
    THEN (a - INT_MAX - 1) - (b + INT_MAX + 1)
    ELSE IF b > 0 /\ a < INT_MIN + b
    THEN (a + INT_MAX + 1) - (b - INT_MAX - 1)
    ELSE a - b

(* An if in place of the while: at most one sample is removed. *)
TrimLoop_once(buf, now_us) ==
    IF buf # <<>> /\ first(front(buf)) < IntSub(now_us, WINDOW_US)
    THEN pop_front(buf)
    ELSE buf

(* The while loop of trim_old_data over one buffer. *)
RECURSIVE TrimLoop(_, _)
TrimLoop(buf, now_us) ==
    IF buf # <<>> /\ first(front(buf)) < IntSub(now_us, WINDOW_US)
    THEN TrimLoop(pop_front(buf), now_us)
    ELSE buf

(* A trim that forgets the second loop. *)
trim_old_data_density_only(db, pb, now_us) ==
    <<TrimLoop(db, now_us), pb>>

(* A trim that forgets the first loop. *)
trim_old_data_position_only(db, pb, now_us) ==
    <<db, TrimLoop(pb, now_us)>>

(* trim_old_data: both loops; the pair <<density_buffer, position_buffer>>. *)
trim_old_data(db, pb, now_us) ==
    <<TrimLoop(db, now_us), TrimLoop(pb, now_us)>>


-----------------------------------------------------------------------------
(* Integer arithmetic of the C++ code *)

(* int / int for b > 0: the quotient truncated toward zero. *)
TruncDiv(a, b) ==
    IF a < 0 /\ a % b # 0 THEN (a \div b) + 1 ELSE a \div b

std_min(a, b) == IF b < a THEN b ELSE a

(* A search that compares the samples' values, not their timestamps. *)
RECURSIVE LowerBoundLoop_by_value(_, _, _, _)
LowerBoundLoop_by_value(buf, lo, len, t) ==
    IF len <= 0 THEN lo
    ELSE LET half == len \div 2
             middle == lo + half
         IN  IF second(buf[middle]) < t
             THEN LowerBoundLoop_by_value(buf, middle + 1, len - half - 1, t)
             ELSE LowerBoundLoop_by_value(buf, lo, half, t)

(* std::lower_bound with the comparator a.first < t: the halving search of  *)
(* the standard library over positions lo .. lo+len-1 (1-based); returns    *)
(* the position of the first element that is not less than t.               *)
RECURSIVE LowerBoundLoop(_, _, _, _)
LowerBoundLoop(buf, lo, len, t) ==
    IF len <= 0 THEN lo
    ELSE LET half == len \div 2
             middle == lo + half
         IN  IF first(buf[middle]) < t
             THEN LowerBoundLoop(buf, middle + 1, len - half - 1, t)
             ELSE LowerBoundLoop(buf, lo, half, t)

lower_bound(buf, t) == LowerBoundLoop(buf, 1, Len(buf), t)

(* Binary64 (double) arithmetic.  The magnitude of a number is a sequence  *)
(* of bits, most significant first, of which the last k are fraction bits; *)
(* the sign is kept apart.                                                 *)
MantissaBits == 53      \* DBL_MANT_DIG
RatioBits == 88         \* quotient bits: 31 zeros at most, 53 kept, 4 more

Zeros(n) == [i \in 1..n |-> 0]

Pad(B, n) == Zeros(n - Len(B)) \o B

(* (double) x for an int x: |x| on 32 bits. *)
Magnitude(x) ==
    IF x = INT_MIN THEN <<1>> \o Zeros(31)
    ELSE LET m == IF x < 0 THEN -x ELSE x
         IN  <<0>> \o [i \in 1..31 |-> (m \div 2^(31 - i)) % 2]

IsZero(B) == \A i \in 1..Len(B) : B[i] = 0

LeadingOne(B) ==
    LET S == {i \in 1..Len(B) : B[i] = 1}
    IN  IF S = {} THEN 0 ELSE CHOOSE i \in S : \A j \in S : i <= j

(* One unit added at position i: the carry runs up to the nearest 0. *)
Increment(B, i) ==
    LET Z == {j \in 1..i : B[j] = 0}
        p == IF Z = {} THEN 0 ELSE CHOOSE j \in Z : \A k \in Z : k <= j
        low == [j \in 1..Len(B) |->
                   IF j = p THEN 1 ELSE IF j > p /\ j <= i THEN 0 ELSE B[j]]
    IN  IF p = 0 THEN <<1>> \o low ELSE low

(* Rounding of an exact result to 53 significant bits, to nearest, ties to *)
(* even (the default rounding mode).                                       *)
RoundToDouble(B) ==
    LET lead == LeadingOne(B)
        last == lead + MantissaBits - 1
    IN  IF lead = 0 \/ last >= Len(B) THEN B
        ELSE LET kept == [i \in 1..Len(B) |-> IF i <= last THEN B[i] ELSE 0]
                 half == B[last + 1] = 1
                 sticky == \E i \in (last + 2)..Len(B) : B[i] = 1
             IN  IF half /\ (sticky \/ B[last] = 1)
                 THEN Increment(kept, last)
                 ELSE kept

(* A + B for A and B of the same length n, on n + 1 bits: position i      *)
(* receives a carry when a lower position j has two 1s and every position *)
(* between has one.                                                       *)
CarryInto(A, B, i) ==
    \E j \in (i + 1)..Len(A) :
        /\ A[j] = 1 /\ B[j] = 1
        /\ \A k \in (i + 1)..(j - 1) : A[k] + B[k] = 1

AddLoop(A, B) ==
    [i \in 1..(Len(A) + 1) |->
        IF i = 1 THEN (IF CarryInto(A, B, 0) THEN 1 ELSE 0)
        ELSE (A[i - 1] + B[i - 1]
                + (IF CarryInto(A, B, i - 1) THEN 1 ELSE 0)) % 2] \o <<>>

AddBits(A, B) ==
    LET n == IF Len(A) >= Len(B) THEN Len(A) ELSE Len(B)
    IN  AddLoop(Pad(A, n), Pad(B, n))

(* A - B for A >= B of the same length: position i lends when a lower     *)
(* position j has 0 over 1 and every position between has equal bits.     *)
BorrowFrom(A, B, i) ==
    \E j \in (i + 1)..Len(A) :
        /\ A[j] < B[j]
        /\ \A k \in (i + 1)..(j - 1) : A[k] = B[k]

SubBits(A, B) ==
    [i \in 1..Len(A) |->
        (A[i] - B[i] - (IF BorrowFrom(A, B, i) THEN 1 ELSE 0) + 2) % 2]
        \o <<>>

LessBits(A, B) ==
    \E i \in 1..Len(A) : A[i] < B[i] /\ \A j \in 1..(i - 1) : A[j] = B[j]

(* The number of pairs of 1 bits, one of B and one of V, whose product has *)
(* the weight of position p of B times V.                                 *)
Column(B, V, p) ==
    Cardinality({j \in 1..Len(V) :
                    /\ (p - j) \in 1..Len(B)
                    /\ V[j] = 1
                    /\ B[p - j] = 1})

(* Row b of the column counts col: their bits of weight 2^b, moved b      *)
(* positions up.                                                          *)
Row(col, b) ==
    [q \in 1..Len(col) |->
        IF q + b <= Len(col) THEN (col[q + b] \div 2^b) % 2 ELSE 0] \o <<>>

(* The sum of the six rows of column counts below 64. *)
SumRows(col) ==
    AddBits(AddBits(AddBits(Row(col, 0), Row(col, 1)),
                    AddBits(Row(col, 2), Row(col, 3))),
            AddBits(Row(col, 4), Row(col, 5)))

(* B times V for V of at most 63 bits. *)
MulBits(B, V) ==
    SumRows([p \in 1..(Len(B) + Len(V)) |-> Column(B, V, p)] \o <<>>)

(* One step of the long division r / d for 0 <= r < d: the next quotient   *)
(* bit and the remainder after it.                                         *)
DivBit(r, d) == IF r >= d - r THEN 1 ELSE 0
DivStep(r, d) == IF r >= d - r THEN r - (d - r) ELSE r + r

(* The first k fraction bits of r / d (k a multiple of eight), and one     *)
(* more bit that is set when the quotient goes on.                         *)
RECURSIVE DivLoop(_, _, _)
DivLoop(r, d, k) ==
    IF k = 0 THEN <<IF r = 0 THEN 0 ELSE 1>>
    ELSE LET r1 == DivStep(r, d)
             r2 == DivStep(r1, d)
             r3 == DivStep(r2, d)
             r4 == DivStep(r3, d)
             r5 == DivStep(r4, d)
             r6 == DivStep(r5, d)
             r7 == DivStep(r6, d)
         IN  <<DivBit(r, d), DivBit(r1, d), DivBit(r2, d), DivBit(r3, d),
               DivBit(r4, d), DivBit(r5, d), DivBit(r6, d), DivBit(r7, d)>>
                 \o DivLoop(DivStep(r7, d), d, k - 8)

FractionBits == RatioBits + 1

(* (double)num / den for 0 < num <= den, rounded: one integer bit and      *)
(* FractionBits fraction bits.                                             *)
Ratio(num, den) ==
    RoundToDouble(IF num = den THEN <<1>> \o Zeros(FractionBits)
                  ELSE <<0>> \o DivLoop(num, den, RatioBits))

(* The integer whose bits are B[1..i], four bits at a time. *)
RECURSIVE BitsValue(_, _)
BitsValue(B, i) ==
    IF i <= 0 THEN 0
    ELSE LET bit(j) == IF j >= 1 THEN B[j] ELSE 0
         IN  16 * BitsValue(B, i - 4)
               + 8 * bit(i - 3) + 4 * bit(i - 2) + 2 * bit(i - 1) + B[i]

(* static_cast<int>(x): the fraction is dropped.  A value outside int is   *)
(* undefined; the build's cvttsd2si has one outcome for it, INT_MIN.       *)
CastToInt(negative, B) ==
    LET whole == SubSeq(B, 1, Len(B) - FractionBits)
        n == Len(whole)
    IN  IF IsZero(SubSeq(whole, 1, n - 31))
        THEN (IF negative THEN -BitsValue(whole, n) ELSE BitsValue(whole, n))
        ELSE INT_MIN

(* static_cast<int>(Q + P) or (Q - P) for magnitudes of one length: Q is   *)
(* that of before.second, P that of the product, which has the sign of dv. *)
SignedSum(b, dv, Q, P) ==
    IF (b < 0) = (dv < 0)
    THEN CastToInt(b < 0, RoundToDouble(AddBits(Q, P)))
    ELSE IF LessBits(Q, P)
    THEN CastToInt(dv < 0, RoundToDouble(SubBits(P, Q)))
    ELSE CastToInt(b < 0, RoundToDouble(SubBits(Q, P)))

(* before.second + prod, the operands brought to one length. *)
AddProduct(b, dv, base, prod) ==
    IF Len(prod) >= Len(base)
    THEN SignedSum(b, dv, Pad(base, Len(prod)), prod)
    ELSE SignedSum(b, dv, base, Pad(prod, Len(base)))

(* before + ratio * dv in doubles, every operation rounded, then the cast. *)
InterpolateRounded(b, num, den, dv) ==
    AddProduct(b, dv, Magnitude(b) \o Zeros(FractionBits),
               RoundToDouble(MulBits(Ratio(num, den), Magnitude(dv))))

RECURSIVE GCD(_, _)
GCD(a, b) == IF b = 0 THEN a ELSE GCD(b, a % b)

AddOverflows(a, b) ==
    (b > 0 /\ a > INT_MAX - b) \/ (b < 0 /\ a < INT_MIN - b)

(* The same value when no operation rounds: num / den reduces to n / d     *)
(* with d a power of two up to 2^20 and |n * dv| and the sum are below     *)
(* 2^31, so ratio, product and sum each fit 53 bits and are exact.         *)
ExactDenominators == {2^j : j \in 0..20}

IsExact(b, n, d, dv) ==
    /\ d \in ExactDenominators
    /\ dv # INT_MIN
    /\ (IF dv < 0 THEN -dv ELSE dv) <= INT_MAX \div n
    /\ ~AddOverflows(b, (n * dv) \div d)

InterpolateExact(b, n, d, dv) ==
    LET q == (n * dv) \div d
        r == (n * dv) % d
    IN  IF b + q < 0 /\ r > 0 THEN b + q + 1 ELSE b + q

(* The last two statements of interpolate_position: the differences are    *)
(* ints (0 < num <= den on an ordered buffer), the ratio, the product and  *)
(* the sum are doubles, the cast truncates toward zero.                    *)
Interpolate(before, after, time_us) ==
    LET num == IntSub(time_us, first(before))
        den == IntSub(first(after), first(before))
        dv  == IntSub(second(after), second(before))
        g   == GCD(num, den)
    IN  IF IsExact(second(before), num \div g, den \div g, dv)
        THEN InterpolateExact(second(before), num \div g, den \div g, dv)
        ELSE InterpolateRounded(second(before), num, den, dv)

(* The high clamp returns the front sample's value. *)
interpolate_position_high_front(pb, time_us) ==
    IF pb = <<>> THEN NO_POSITION
    ELSE IF time_us <= first(front(pb)) THEN second(front(pb))
    ELSE IF time_us >= first(back(pb)) THEN second(front(pb))
    ELSE LET it == lower_bound(pb, time_us)
         IN  Interpolate(pb[it - 1], pb[it], time_us)

(* int SensorDataManager::interpolate_position(int time_us) *)
interpolate_position(pb, time_us) ==
    IF pb = <<>> THEN NO_POSITION
    ELSE IF time_us <= first(front(pb)) THEN second(front(pb))
    ELSE IF time_us >= first(back(pb)) THEN second(back(pb))
    ELSE LET it == lower_bound(pb, time_us)
         IN  Interpolate(pb[it - 1], pb[it], time_us)

-----------------------------------------------------------------------------
(* MedianStrategy.h *)

(* The value std::nth_element leaves at 0-based position n: the element    *)
(* with at most n smaller elements and more than n elements not greater.   *)
NthValue(v, n) ==
    CHOOSE x \in {v[i] : i \in 1..Len(v)} :
        /\ Cardinality({i \in 1..Len(v) : v[i] < x}) <= n
        /\ Cardinality({i \in 1..Len(v) : v[i] <= x}) > n

(* q is a rearrangement of v. *)
IsPermutation(q, v) ==
    /\ Len(q) = Len(v)
    /\ \A x \in {v[i] : i \in 1..Len(v)} :
           Cardinality({i \in 1..Len(q) : q[i] = x})
               = Cardinality({i \in 1..Len(v) : v[i] = x})

(* std::nth_element(begin, begin + n, end): every order of v it may leave, *)
(* i.e. nothing before position n is greater than the element there and    *)
(* nothing after it is smaller (0-based n).                                *)
nth_element(v, n) ==
    {q \in [1..Len(v) -> {v[i] : i \in 1..Len(v)}] :
        /\ IsPermutation(q, v)
        /\ \A i \in 1..Len(v) : i < n + 1 => q[i] <= q[n + 1]
        /\ \A i \in 1..Len(v) : i > n + 1 => q[i] >= q[n + 1]}

(* std::sort, ascending (insertion sort). *)
RECURSIVE InsertSorted(_, _)
InsertSorted(s, x) ==
    IF s = <<>> THEN <<x>>
    ELSE IF x <= Head(s) THEN <<x>> \o s
    ELSE <<Head(s)>> \o InsertSorted(Tail(s), x)

RECURSIVE std_sort(_)
std_sort(v) ==
    IF v = <<>> THEN <<>> ELSE InsertSorted(std_sort(Tail(v)), Head(v))

(* std::priority_queue<int> (max-heap) kept as a descending sequence and   *)
(* std::priority_queue<int, ..., std::greater<int>> (min-heap) kept as an  *)
(* ascending one: top() is the head, pop() drops it.                       *)
RECURSIVE PushMax(_, _)
PushMax(h, x) ==
    IF h = <<>> THEN <<x>>
    ELSE IF x >= Head(h) THEN <<x>> \o h
    ELSE <<Head(h)>> \o PushMax(Tail(h), x)

PushMin(h, x) == InsertSorted(h, x)
top(h) == Head(h)
pop(h) == Tail(h)

(* The body of the HeapMedian loop for one val: <<lower, upper>> after it. *)
HeapPlace(lo, up, val) ==
    IF lo = <<>> \/ val < top(lo)
    THEN <<PushMax(lo, val), up>>
    ELSE <<lo, PushMin(up, val)>>

(* A balance that never moves an element from upper to lower. *)
HeapBalance_lower_only(lo, up) ==
    IF Len(lo) > Len(up) + 1
    THEN <<pop(lo), PushMin(up, top(lo))>>
    ELSE <<lo, up>>

HeapBalance(lo, up) ==
    IF Len(lo) > Len(up) + 1
    THEN <<pop(lo), PushMin(up, top(lo))>>
    ELSE IF Len(up) > Len(lo)
    THEN <<PushMax(lo, top(up)), pop(up)>>
    ELSE <<lo, up>>

HeapLoopBody(lo, up, val) ==
    LET placed == HeapPlace(lo, up, val)
    IN  HeapBalance(placed[1], placed[2])

-----------------------------------------------------------------------------
(* CalculateDensityValues *)

(* The locals before the loop: relevant_densities, sum, count, min_val. *)
ScanInit == [relevant_densities |-> <<>>, sum |-> 0, count |-> 0,
             min_val |-> INT_MAX]

(* A loop body whose range test leaves out the two end positions. *)
ScanStep_exclusive(acc, sample, pb, min_pos_mm, max_pos_mm) ==
    LET pos == interpolate_position(pb, first(sample))
        d   == second(sample)
    IN  IF pos > min_pos_mm /\ pos < max_pos_mm
        THEN [relevant_densities |-> Append(acc.relevant_densities, d),
              sum |-> IntAdd(acc.sum, d),
              count |-> acc.count + 1,
              min_val |-> std_min(acc.min_val, d)]
        ELSE acc

(* The body of the for loop, for one sample {t, d} of density_buffer. *)
ScanStep(acc, sample, pb, min_pos_mm, max_pos_mm) ==
    LET pos == interpolate_position(pb, first(sample))
        d   == second(sample)
    IN  IF pos >= min_pos_mm /\ pos <= max_pos_mm
        THEN [relevant_densities |-> Append(acc.relevant_densities, d),
              sum |-> IntAdd(acc.sum, d),
              count |-> acc.count + 1,
              min_val |-> std_min(acc.min_val, d)]
        ELSE acc

(* The whole for loop over density_buffer, from position i on. *)
RECURSIVE ScanLoop(_, _, _, _, _, _)
ScanLoop(acc, db, i, pb, min_pos_mm, max_pos_mm) ==
    IF i > Len(db) THEN acc
    ELSE ScanLoop(ScanStep(acc, db[i], pb, min_pos_mm, max_pos_mm),
                  db, i + 1, pb, min_pos_mm, max_pos_mm)

(* The empty case clears mean and median only; min keeps its start value. *)
ScanResult_min_unset(acc) ==
    IF acc.count = 0 THEN <<0, acc.min_val, 0>>
    ELSE <<TruncDiv(acc.sum, acc.count),
           acc.min_val,
           NthValue(acc.relevant_densities, acc.count \div 2)>>

(* The statements after the loop: <<mean, min, median>> as written to the  *)
(* three out-parameters.                                                   *)
ScanResult(acc) ==
    IF acc.count = 0 THEN <<0, 0, 0>>
    ELSE <<TruncDiv(acc.sum, acc.count),
           acc.min_val,
           NthValue(acc.relevant_densities, acc.count \div 2)>>

(* CalculateDensityValues on given buffers: the values of the out-params. *)
CalculateDensityValues(db, pb, min_pos_mm, max_pos_mm) ==
    ScanResult(ScanLoop(ScanInit, db, 1, pb, min_pos_mm, max_pos_mm))

-----------------------------------------------------------------------------
(* Spec: the public operations as atomic handlers *)

NoCall == [op |-> "none", a |-> 0, b |-> 0]

InitManager ==
    /\ density_buffer = <<>>
    /\ position_buffer = <<>>
    /\ mean_density = 0
    /\ min_density = 0
    /\ median_density = 0
    /\ last_call = NoCall
    /\ n_density = 0
    /\ n_position = 0
    /\ last_density_time = 0
    /\ last_position_time = 0

InitThreadsIdle ==
    /\ data_mutex = "free"
    /\ pc = <<>>
    /\ frame = <<>>
    /\ snapshot = <<>>

InitMedianIdle ==
    /\ data = <<>>
    /\ lower = <<>>
    /\ upper = <<>>
    /\ heap_i = -1
    /\ medians = <<>>

InitPureIdle == InitMedianIdle /\ interpolated = <<>>

Init == InitManager /\ InitThreadsIdle /\ InitPureIdle

(* The callers keep each stream's timestamps non-decreasing. *)
DensityTimeOk(t) == n_density = 0 \/ t >= last_density_time
PositionTimeOk(t) == n_position = 0 \/ t >= last_position_time

(* The results of a query are locals of the caller's loop body (int mean,  *)
(* min, median): they leave scope before the caller's next call.           *)
OutOfScope ==
    /\ mean_density' = 0
    /\ min_density' = 0
    /\ median_density' = 0

MeasureDensityReady(density, time_uS) ==
    /\ n_density < MaxDensity
    /\ DensityTimeOk(time_uS)
    /\ LET trimmed == trim_old_data(density_buffer, position_buffer, time_uS)
       IN  /\ density_buffer' = emplace_back(trimmed[1], time_uS, density)
           /\ position_buffer' = trimmed[2]
    /\ n_density' = n_density + 1
    /\ last_density_time' = time_uS
    /\ last_call' = [op |-> "density", a |-> density, b |-> time_uS]
    /\ OutOfScope
    /\ UNCHANGED <<n_position, last_position_time>>
    /\ UNCHANGED <<threadVars, pureVars>>

MeasurePositionReady(position_mm, time_uS) ==
    /\ n_position < MaxPosition
    /\ PositionTimeOk(time_uS)
    /\ LET trimmed == trim_old_data(density_buffer, position_buffer, time_uS)
       IN  /\ density_buffer' = trimmed[1]
           /\ position_buffer' = emplace_back(trimmed[2], time_uS, position_mm)
    /\ n_position' = n_position + 1
    /\ last_position_time' = time_uS
    /\ last_call' = [op |-> "position", a |-> position_mm, b |-> time_uS]
    /\ OutOfScope
    /\ UNCHANGED <<n_density, last_density_time>>
    /\ UNCHANGED <<threadVars, pureVars>>

(* A query that removes from density_buffer the samples it reports. *)
Query_consuming(min_pos_mm, max_pos_mm) ==
    /\ LET r == CalculateDensityValues(density_buffer, position_buffer,
                                       min_pos_mm, max_pos_mm)
       IN  /\ mean_density' = r[1]
           /\ min_density' = r[2]
           /\ median_density' = r[3]
    /\ density_buffer' =
           SelectSeq(density_buffer,
                     LAMBDA s :
                        LET p == interpolate_position(position_buffer, first(s))
                        IN  ~(p >= min_pos_mm /\ p <= max_pos_mm))
    /\ last_call' = [op |-> "query", a |-> min_pos_mm, b |-> max_pos_mm]
    /\ UNCHANGED <<position_buffer, callerVars, threadVars, pureVars>>

Query(min_pos_mm, max_pos_mm) ==
    /\ LET r == CalculateDensityValues(density_buffer, position_buffer,
                                       min_pos_mm, max_pos_mm)
       IN  /\ mean_density' = r[1]
           /\ min_density' = r[2]
           /\ median_density' = r[3]
    /\ last_call' = [op |-> "query", a |-> min_pos_mm, b |-> max_pos_mm]
    /\ UNCHANGED <<managerVars, callerVars, threadVars, pureVars>>

InsertDensity == \E d \in Densities, t \in Times : MeasureDensityReady(d, t)
InsertPosition ==
    \E p \in Positions, t \in PositionTimes : MeasurePositionReady(p, t)
RunQuery == \E iv \in Intervals : Query(iv[1], iv[2])

Next == InsertDensity \/ InsertPosition \/ RunQuery

Spec == Init /\ [][Next]_vars

-----------------------------------------------------------------------------
(* SpecMedian: MedianStrategy::compute(data, algorithm), each algorithm    *)
(* once, in any order, on the same vector (compute reorders it in place).  *)

Algorithms == {"NthElement", "FullSort", "HeapMedian"}

NoHeap == -1    \* heap_i while the HeapMedian loop is not running

Returns(alg, value) == medians' = medians @@ (alg :> value)

SeqsUpTo(S, n) == UNION {[1..k -> S] : k \in 0..n}

InitMedian ==
    /\ InitManager
    /\ InitThreadsIdle
    /\ data \in SeqsUpTo(MedianValues, MaxLen)
    /\ lower = <<>>
    /\ upper = <<>>
    /\ heap_i = NoHeap
    /\ medians = <<>>
    /\ interpolated = <<>>

(* compute(data, NthElement) *)
ComputeNthElement ==
    /\ heap_i = NoHeap
    /\ "NthElement" \notin DOMAIN medians
    /\ LET n == Len(data)
       IN  IF n = 0
           THEN Returns("NthElement", 0) /\ UNCHANGED data
           ELSE \E q \in nth_element(data, n \div 2) :
                    /\ data' = q
                    /\ Returns("NthElement", q[(n \div 2) + 1])
    /\ UNCHANGED <<lower, upper, heap_i>>
    /\ UNCHANGED <<managerVars, outVars, last_call, callerVars, threadVars,
                   interpolated>>

(* compute(data, FullSort) *)
ComputeFullSort ==
    /\ heap_i = NoHeap
    /\ "FullSort" \notin DOMAIN medians
    /\ LET n == Len(data)
       IN  IF n = 0
           THEN Returns("FullSort", 0) /\ UNCHANGED data
           ELSE /\ data' = std_sort(data)
                /\ Returns("FullSort", std_sort(data)[(n \div 2) + 1])
    /\ UNCHANGED <<lower, upper, heap_i>>
    /\ UNCHANGED <<managerVars, outVars, last_call, callerVars, threadVars,
                   interpolated>>

(* compute(data, HeapMedian): entry, up to the first test of the loop. *)
HeapBegin ==
    /\ heap_i = NoHeap
    /\ "HeapMedian" \notin DOMAIN medians
    /\ IF Len(data) = 0
       THEN Returns("HeapMedian", 0) /\ UNCHANGED <<lower, upper, heap_i>>
       ELSE /\ lower' = <<>>
            /\ upper' = <<>>
            /\ heap_i' = 0
            /\ UNCHANGED medians
    /\ UNCHANGED data
    /\ UNCHANGED <<managerVars, outVars, last_call, callerVars, threadVars,
                   interpolated>>

(* One iteration of for (int val : data). *)
HeapInsert ==
    /\ heap_i # NoHeap
    /\ heap_i < Len(data)
    /\ LET h == HeapLoopBody(lower, upper, data[heap_i + 1])
       IN  /\ lower' = h[1]
           /\ upper' = h[2]
    /\ heap_i' = heap_i + 1
    /\ UNCHANGED <<data, medians>>
    /\ UNCHANGED <<managerVars, outVars, last_call, callerVars, threadVars,
                   interpolated>>

(* return lower.top(); *)
HeapReturn ==
    /\ heap_i # NoHeap
    /\ heap_i = Len(data)
    /\ Returns("HeapMedian", top(lower))
    /\ heap_i' = NoHeap
    /\ UNCHANGED <<data, lower, upper>>
    /\ UNCHANGED <<managerVars, outVars, last_call, callerVars, threadVars,
                   interpolated>>

NextMedian ==
    \/ ComputeNthElement
    \/ ComputeFullSort
    \/ HeapBegin
    \/ HeapInsert
    \/ HeapReturn

SpecMedian == InitMedian /\ [][NextMedian]_vars

-----------------------------------------------------------------------------
(* SpecThreads: the threads of unit_tests_microtec.cpp.  Every public      *)
(* operation is split at its lock_guard, at every loop iteration and at    *)
(* its append; the threads interleave at these steps.                      *)

DensityWriter == "t1"       \* std::thread t1(simulate_density_input)
PositionWriter == "t2"      \* std::thread t2(simulate_position_input)
Readers == {"t3", "t4"}     \* simulate_query threads
Writers == {DensityWriter, PositionWriter}
Threads == Writers \cup Readers

NoFrame == [calls |-> 0, a |-> 0, b |-> 0, i |-> 0, acc |-> ScanInit,
            result |-> <<>>]
NoSnapshot == [db |-> <<>>, pb |-> <<>>, quiescent |-> TRUE]

(* Positions between the construction and the destruction of lock_guard. *)
WriterSection == {"trim_density", "trim_position", "emplace", "unlock"}
ReaderSection == {"scan", "unlock"}
InSection(t) == pc[t] \in WriterSection \cup ReaderSection

(* A writer has started to change the buffers and has not yet released. *)
InsertInProgress == \E w \in Writers : pc[w] \in WriterSection

InitThreads ==
    /\ InitManager
    /\ InitPureIdle
    /\ data_mutex = "free"
    /\ pc = [t \in Threads |-> "idle"]
    /\ frame = [t \in Threads |-> NoFrame]
    /\ snapshot = [r \in Readers |-> NoSnapshot]

threadFrame == <<outVars, last_call, callerVars, pureVars>>

Goto(t, label) == pc' = [pc EXCEPT ![t] = label]

(* The loop of simulate_density_input / simulate_position_input /          *)
(* simulate_query enters the next call, which first waits for the lock.    *)
Call(t) ==
    /\ pc[t] = "idle"
    /\ frame[t].calls < (IF t \in Readers THEN MaxQueries ELSE MaxCalls)
    /\ frame' = [frame EXCEPT ![t].calls = @ + 1]
    /\ Goto(t, "lock")
    /\ UNCHANGED <<managerVars, data_mutex, snapshot, threadFrame>>

(* The arguments of the call that thread t is in: a writer passes the next *)
(* value and a timestamp not below its previous one, a reader an interval. *)
CallArguments(t) ==
    IF t \in Readers THEN ThreadIntervals
    ELSE {<<v, time_uS>> :
             v \in (IF t = DensityWriter THEN ThreadDensities
                                         ELSE ThreadPositions),
             time_uS \in {u \in ThreadTimes :
                             frame[t].calls = 1 \/ u >= frame[t].b}}

(* What thread t does once it owns the mutex. *)
Enter(t) ==
    /\ \E args \in CallArguments(t) :
           frame' = [frame EXCEPT ![t].a = args[1], ![t].b = args[2],
                                  ![t].i = 0, ![t].acc = ScanInit,
                                  ![t].result = <<>>]
    /\ IF t \in Readers
       THEN /\ Goto(t, "scan")
            /\ snapshot' = [snapshot EXCEPT ![t] =
                                [db |-> density_buffer, pb |-> position_buffer,
                                 quiescent |-> ~InsertInProgress]]
       ELSE /\ Goto(t, "trim_density")
            /\ UNCHANGED snapshot
    /\ UNCHANGED <<managerVars, threadFrame>>

(* std::lock_guard<std::mutex> lock(data_mutex) that does not wait. *)
Lock_no_wait(t) ==
    /\ pc[t] = "lock"
    /\ data_mutex' = t
    /\ Enter(t)

(* Only the writers take the mutex; the read-only query does not. *)
Lock_writers_only(t) ==
    /\ pc[t] = "lock"
    /\ IF t \in Readers
       THEN UNCHANGED data_mutex
       ELSE data_mutex = "free" /\ data_mutex' = t
    /\ Enter(t)

(* std::lock_guard<std::mutex> lock(data_mutex): blocks until the mutex is *)
(* free, then owns it.                                                     *)
Lock(t) ==
    /\ pc[t] = "lock"
    /\ data_mutex = "free"
    /\ data_mutex' = t
    /\ Enter(t)

(* trim_old_data, first while: one test, and one pop_front if it holds. *)
TrimDensityStep(t) ==
    /\ pc[t] = "trim_density"
    /\ IF density_buffer # <<>>
          /\ first(front(density_buffer))
               < IntSub(frame[t].b, WINDOW_US)
       THEN /\ density_buffer' = pop_front(density_buffer)
            /\ UNCHANGED pc
       ELSE /\ Goto(t, "trim_position")
            /\ UNCHANGED density_buffer
    /\ UNCHANGED <<position_buffer, data_mutex, frame, snapshot, threadFrame>>

(* trim_old_data, second while. *)
TrimPositionStep(t) ==
    /\ pc[t] = "trim_position"
    /\ IF position_buffer # <<>>
          /\ first(front(position_buffer))
               < IntSub(frame[t].b, WINDOW_US)
       THEN /\ position_buffer' = pop_front(position_buffer)
            /\ UNCHANGED pc
       ELSE /\ Goto(t, "emplace")
            /\ UNCHANGED position_buffer
    /\ UNCHANGED <<density_buffer, data_mutex, frame, snapshot, threadFrame>>

(* density_buffer.emplace_back(time_uS, density) or                        *)
(* position_buffer.emplace_back(time_uS, position_mm).                     *)
EmplaceStep(t) ==
    /\ pc[t] = "emplace"
    /\ IF t = DensityWriter
       THEN /\ density_buffer' =
                   emplace_back(density_buffer, frame[t].b, frame[t].a)
            /\ UNCHANGED position_buffer
       ELSE /\ position_buffer' =
                   emplace_back(position_buffer, frame[t].b, frame[t].a)
            /\ UNCHANGED density_buffer
    /\ Goto(t, "unlock")
    /\ UNCHANGED <<data_mutex, frame, snapshot, threadFrame>>

(* CalculateDensityValues: one iteration of the for loop, or, at the end   *)
(* of density_buffer, the statements that write the out-parameters.        *)
ScanStepAt(t) ==
    /\ pc[t] = "scan"
    /\ IF frame[t].i < Len(density_buffer)
       THEN /\ frame' = [frame EXCEPT
                            ![t].i = @ + 1,
                            ![t].acc = ScanStep(@, density_buffer[frame[t].i + 1],
                                                position_buffer,
                                                frame[t].a, frame[t].b)]
            /\ UNCHANGED pc
       ELSE /\ frame' = [frame EXCEPT ![t].result = ScanResult(frame[t].acc)]
            /\ Goto(t, "unlock")
    /\ UNCHANGED <<managerVars, data_mutex, snapshot, threadFrame>>

(* A return that leaves the mutex owned. *)
Unlock_keeps_mutex(t) ==
    /\ pc[t] = "unlock"
    /\ UNCHANGED data_mutex
    /\ Goto(t, "idle")
    /\ IF t \in Readers
       THEN /\ frame' = [frame EXCEPT ![t] =
                            [NoFrame EXCEPT !.calls = frame[t].calls]]
            /\ snapshot' = [snapshot EXCEPT ![t] = NoSnapshot]
       ELSE /\ frame' = [frame EXCEPT ![t].a = 0]
            /\ UNCHANGED snapshot
    /\ UNCHANGED <<managerVars, threadFrame>>

(* The destructor of lock_guard at the end of the operation; the call     *)
(* returns and its arguments and locals leave scope (a writer's loop keeps *)
(* the timestamp it has reached).                                          *)
Unlock(t) ==
    /\ pc[t] = "unlock"
    /\ data_mutex' = "free"
    /\ Goto(t, "idle")
    /\ IF t \in Readers
       THEN /\ frame' = [frame EXCEPT ![t] =
                            [NoFrame EXCEPT !.calls = frame[t].calls]]
            /\ snapshot' = [snapshot EXCEPT ![t] = NoSnapshot]
       ELSE /\ frame' = [frame EXCEPT ![t].a = 0]
            /\ UNCHANGED snapshot
    /\ UNCHANGED <<managerVars, threadFrame>>

NextThreads ==
    \E t \in Threads :
        \/ Call(t)
        \/ Lock(t)
        \/ TrimDensityStep(t)
        \/ TrimPositionStep(t)
        \/ EmplaceStep(t)
        \/ ScanStepAt(t)
        \/ Unlock(t)

SpecThreads == InitThreads /\ [][NextThreads]_vars

(* SpecThreadsFair: the same threads under a fair scheduler.  A thread     *)
(* that can take its next step is eventually run, and a thread waiting in  *)
(* lock_guard obtains the mutex once it stays free (weak fairness of every *)
(* step; the strong fairness of a fair lock implies it).  No test of the   *)
(* code reads a density, a position value or an interval, so the calls     *)
(* pass one value of each; the timestamps vary as in SpecThreads.          *)
ThreadStep(t) ==
    \/ Call(t)
    \/ TrimDensityStep(t)
    \/ TrimPositionStep(t)
    \/ EmplaceStep(t)
    \/ ScanStepAt(t)
    \/ Unlock(t)

FairScheduling ==
    \A t \in Threads : WF_vars(ThreadStep(t)) /\ WF_vars(Lock(t))

FixedValues ==
    /\ frame[DensityWriter].a \in {0, 10}
    /\ frame[PositionWriter].a \in {0}
    /\ \A r \in Readers : <<frame[r].a, frame[r].b>> \in {<<0, 0>>, <<0, 50>>}

SpecThreadsFair ==
    InitThreads /\ [][NextThreads /\ FixedValues']_vars /\ FairScheduling

-----------------------------------------------------------------------------
(* SpecInterpolate: interpolate_position(time_us) on a retained position   *)
(* buffer, once for each time_us.  The buffer is one that inserts in       *)
(* timestamp order leave behind: ordered, all within WINDOW_US.            *)

InterpolateSampleTimes == {0, 100}
InterpolatePositions == {-2000000000, 0, 100, 2000000000}
InterpolateTimes == {0, 29, 50, 100}

Ordered(buf) ==
    \A i \in 1..(Len(buf) - 1) : first(buf[i]) <= first(buf[i + 1])

InitInterpolate ==
    /\ position_buffer \in
           {buf \in SeqsUpTo(InterpolateSampleTimes \X InterpolatePositions,
                             MaxPosition) : Ordered(buf)}
    /\ density_buffer = <<>>
    /\ mean_density = 0
    /\ min_density = 0
    /\ median_density = 0
    /\ n_density = 0
    /\ n_position = Len(position_buffer)
    /\ last_density_time = 0
    /\ last_position_time =
           (IF position_buffer = <<>> THEN 0 ELSE first(back(position_buffer)))
    /\ last_call =
           (IF position_buffer = <<>> THEN NoCall
            ELSE [op |-> "position", a |-> second(back(position_buffer)),
                  b |-> first(back(position_buffer))])
    /\ InitThreadsIdle
    /\ InitPureIdle

(* int pos = interpolate_position(time_us) *)
InterpolatePosition(time_us) ==
    /\ time_us \notin DOMAIN interpolated
    /\ interpolated' =
           interpolated @@
               (time_us :> interpolate_position(position_buffer, time_us))
    /\ UNCHANGED <<managerVars, outVars, last_call, callerVars, threadVars,
                   medianVars>>

NextInterpolate == \E t \in InterpolateTimes : InterpolatePosition(t)

SpecInterpolate == InitInterpolate /\ [][NextInterpolate]_vars

-----------------------------------------------------------------------------
(* SpecAggregate: CalculateDensityValues on density buffers that hold any  *)
(* int, over the position samples 0 at time 0 and 100 at time 100.         *)

AggregateTimes == {0, 100}
AggregateDensities == {-7, 0, 10, INT_MAX}
AggregateIntervals == {<<0, 0>>, <<0, 100>>, <<1, 0>>}

InitAggregate ==
    /\ density_buffer \in
           {buf \in SeqsUpTo(AggregateTimes \X AggregateDensities, MaxDensity) :
               Ordered(buf)}
    /\ position_buffer = <<<<0, 0>>, <<100, 100>>>>
    /\ mean_density = 0
    /\ min_density = 0
    /\ median_density = 0
    /\ n_density = Len(density_buffer)
    /\ n_position = 2
    /\ last_density_time =
           (IF density_buffer = <<>> THEN 0 ELSE first(back(density_buffer)))
    /\ last_position_time = 100
    /\ last_call = [op |-> "position", a |-> 100, b |-> 100]
    /\ InitThreadsIdle
    /\ InitPureIdle

NextAggregate == \E iv \in AggregateIntervals : Query(iv[1], iv[2])

SpecAggregate == InitAggregate /\ [][NextAggregate]_vars

-----------------------------------------------------------------------------
(* SpecTrim: the two insert operations on timestamps at the window's edge  *)
(* (0 against 5000000 and 5000001) and near the lower end of int.          *)

TrimTimes == {-2147483000, 0, 5000000, 5000001}
TrimDensities == {10}
TrimPositions == {0}

TrimInsertDensity ==
    \E d \in TrimDensities, t \in TrimTimes : MeasureDensityReady(d, t)
TrimInsertPosition ==
    \E p \in TrimPositions, t \in TrimTimes : MeasurePositionReady(p, t)

NextTrim == TrimInsertDensity \/ TrimInsertPosition

SpecTrim == Init /\ [][NextTrim]_vars

-----------------------------------------------------------------------------
(* SpecLocate: the statements of interpolate_position up to auto after =   *)
(* *it, on retained position buffers with repeated timestamps that span up *)
(* to WINDOW_US.  A call that passes the three early returns records the   *)
(* position (1-based) that std::lower_bound returns.                       *)

LocateSampleTimes == {0, 100, 5000000}
LocatePositions == {0, 100}
LocateTimes == {29, 100, 2500000}

InitLocate ==
    /\ position_buffer \in
           {buf \in SeqsUpTo(LocateSampleTimes \X LocatePositions, MaxSamples) :
               Ordered(buf)}
    /\ density_buffer = <<>>
    /\ mean_density = 0
    /\ min_density = 0
    /\ median_density = 0
    /\ n_density = 0
    /\ n_position = Len(position_buffer)
    /\ last_density_time = 0
    /\ last_position_time =
           (IF position_buffer = <<>> THEN 0 ELSE first(back(position_buffer)))
    /\ last_call =
           (IF position_buffer = <<>> THEN NoCall
            ELSE [op |-> "position", a |-> second(back(position_buffer)),
                  b |-> first(back(position_buffer))])
    /\ InitThreadsIdle
    /\ InitPureIdle

(* auto it = std::lower_bound(...), reached past the three returns. *)
LocateAfter(time_us) ==
    /\ time_us \notin DOMAIN interpolated
    /\ position_buffer # <<>>
    /\ ~(time_us <= first(front(position_buffer)))
    /\ ~(time_us >= first(back(position_buffer)))
    /\ interpolated' =
           interpolated @@ (time_us :> lower_bound(position_buffer, time_us))
    /\ UNCHANGED <<managerVars, outVars, last_call, callerVars, threadVars,
                   medianVars>>

NextLocate == \E t \in LocateTimes : LocateAfter(t)

SpecLocate == InitLocate /\ [][NextLocate]_vars

-----------------------------------------------------------------------------
(* Vocabulary of the properties *)

Result == <<mean_density, min_density, median_density>>

IsInsert(c) == c.op \in {"density", "position"}
IsQuery(c) == c.op = "query"

Samples(buf) == {buf[i] : i \in 1..Len(buf)}

(* Samples evicted so far: every call appends one sample. *)
Evicted == (n_density + n_position)
             - (Len(density_buffer) + Len(position_buffer))

(* A density sample qualifies for [lo, hi] when the position interpolated  *)
(* at its timestamp lies in the closed interval.                           *)
Qualifies(s, lo, hi) ==
    LET p == interpolate_position(position_buffer, first(s))
    IN  lo <= p /\ p <= hi

(* The densities of the qualifying samples, in retained order. *)
RECURSIVE SecondsOf(_)
SecondsOf(buf) ==
    IF buf = <<>> THEN <<>> ELSE <<second(Head(buf))>> \o SecondsOf(Tail(buf))

WorkingSet(lo, hi) ==
    SecondsOf(SelectSeq(density_buffer, LAMBDA s : Qualifies(s, lo, hi)))

(* The element at 0-based index floor((n-1)/2) of v in ascending order. *)
LowerMiddle(v) == std_sort(v)[((Len(v) - 1) \div 2) + 1]

(* The largest timestamp of a completed insert, per stream and overall. *)
MaxOf(a, b) == IF a >= b THEN a ELSE b
SomeInsertDone == n_density > 0 \/ n_position > 0
MaxInsertTime ==
    IF n_density = 0 THEN last_position_time
    ELSE IF n_position = 0 THEN last_density_time
    ELSE MaxOf(last_density_time, last_position_time)

-----------------------------------------------------------------------------
(* C1: right after an insert with timestamp T (timestamps non-decreasing   *)
(* per stream), no sample of either buffer has a timestamp below           *)
(* T - WINDOW_US.                                                          *)
C1_WindowPostCondition ==
    IsInsert(last_call) =>
        \A s \in Samples(density_buffer) \cup Samples(position_buffer) :
            first(s) >= last_call.b - WINDOW_US

(* An insert has just evicted samples from both buffers. *)
C1_Witness ==
    /\ IsInsert(last_call)
    /\ n_density > Len(density_buffer)
    /\ n_position > Len(position_buffer)

-----------------------------------------------------------------------------
(* C5: the median returned by a query with a non-empty working set (of     *)
(* samples with a known position) is the lower-middle element of the       *)
(* working set in ascending order; after                                   *)
(* density 10@0, 20@1000, 30@2000 and position 0@0, 100@2000, the query    *)
(* (0, 50) returns mean 15, min 10, median 10.                             *)
ScenarioBuffers ==
    /\ density_buffer = <<<<0, 10>>, <<1000, 20>>, <<2000, 30>>>>
    /\ position_buffer = <<<<0, 0>>, <<2000, 100>>>>

C5_QueryMedianLowerMiddle ==
    IsQuery(last_call) =>
        /\ (position_buffer # <<>>
              /\ WorkingSet(last_call.a, last_call.b) # <<>>) =>
               median_density = LowerMiddle(WorkingSet(last_call.a, last_call.b))
        /\ (ScenarioBuffers /\ last_call.a = 0 /\ last_call.b = 50) =>
               Result = <<15, 10, 10>>

-----------------------------------------------------------------------------
(* C6: while the position buffer is empty a query includes no density      *)
(* sample, whatever the interval (also one that contains -1), and returns  *)
(* (0, 0, 0).                                                              *)
C6_SentinelExclusion ==
    (IsQuery(last_call) /\ position_buffer = <<>>) => Result = <<0, 0, 0>>

-----------------------------------------------------------------------------
(* C7: a query for which no retained density sample qualifies (in          *)
(* particular a query on an empty manager) returns exactly (0, 0, 0).      *)
C7_EmptyResult ==
    (IsQuery(last_call)
       /\ \A s \in Samples(density_buffer) :
              ~Qualifies(s, last_call.a, last_call.b))
    => Result = <<0, 0, 0>>

(* A query has run over retained density samples of which none qualified. *)
C7_Witness ==
    /\ IsQuery(last_call)
    /\ density_buffer # <<>>
    /\ position_buffer # <<>>
    /\ \A s \in Samples(density_buffer) :
           ~Qualifies(s, last_call.a, last_call.b)
    /\ Result = <<0, 0, 0>>

-----------------------------------------------------------------------------
(* C8 as stated: once an insert (on either stream) with timestamp T has    *)
(* completed, no later query draws on a density sample with a timestamp    *)
(* below T - WINDOW_US.                                                    *)
C8_EvictionAnyInsert ==
    (IsQuery(last_call) /\ SomeInsertDone) =>
        \A s \in Samples(density_buffer) :
            Qualifies(s, last_call.a, last_call.b)
                => first(s) >= MaxInsertTime - WINDOW_US

(* C8 amended: once a density insert with timestamp T has completed, no    *)
(* later query draws on a density sample with a timestamp below            *)
(* T - WINDOW_US.                                                          *)
C8_EvictionDensityInsert ==
    (IsQuery(last_call) /\ n_density > 0) =>
        \A s \in Samples(density_buffer) :
            Qualifies(s, last_call.a, last_call.b)
                => first(s) >= last_density_time - WINDOW_US

(* Density at 0 and then at 6,000,000; the query over the full range       *)
(* reports the later sample only.                                          *)
C8_Witness ==
    /\ IsQuery(last_call)
    /\ n_density = 2
    /\ last_density_time = 6000000
    /\ Len(density_buffer) = 1
    /\ WorkingSet(last_call.a, last_call.b) # <<>>
    /\ median_density = second(density_buffer[1])

-----------------------------------------------------------------------------
(* C9: a query changes neither buffer, and a query that repeats the        *)
(* previous call (same interval, no insert between) returns what the       *)
(* previous one returned.                                                  *)
C9_QueryFrameIdempotent ==
    [][IsQuery(last_call') =>
          /\ density_buffer' = density_buffer
          /\ position_buffer' = position_buffer
          /\ (last_call' = last_call => Result' = Result)]_vars

(* A query has returned a non-zero aggregate over retained samples. *)
C9_Witness ==
    /\ IsQuery(last_call)
    /\ Len(density_buffer) >= 2
    /\ position_buffer # <<>>
    /\ median_density # 0

-----------------------------------------------------------------------------
(* C10 as stated: with a non-empty position buffer, interpolate_position   *)
(* returns the earliest sample's value for every t at or before its        *)
(* timestamp and the latest sample's value for every t at or after its     *)
(* timestamp.                                                              *)
ProbeTimes == Times \cup {-1000, 500, 1500, 7000000}

C10_Clamping ==
    position_buffer # <<>> =>
        \A t \in ProbeTimes :
            /\ t <= first(front(position_buffer)) =>
                   interpolate_position(position_buffer, t)
                       = second(front(position_buffer))
            /\ t >= first(back(position_buffer)) =>
                   interpolate_position(position_buffer, t)
                       = second(back(position_buffer))

(* C10 amended: the low clamp is tested first, so the latest sample's      *)
(* value is returned for t at or after its timestamp and after the         *)
(* earliest sample's timestamp.                                            *)
C10_ClampingLowFirst ==
    position_buffer # <<>> =>
        \A t \in ProbeTimes :
            /\ t <= first(front(position_buffer)) =>
                   interpolate_position(position_buffer, t)
                       = second(front(position_buffer))
            /\ (t >= first(back(position_buffer))
                  /\ t > first(front(position_buffer))) =>
                   interpolate_position(position_buffer, t)
                       = second(back(position_buffer))

(* Two position samples with different timestamps and values are retained, *)
(* so both clamps apply and differ.                                        *)
C10_Witness ==
    /\ Len(position_buffer) = 2
    /\ first(front(position_buffer)) < first(back(position_buffer))
    /\ second(front(position_buffer)) # second(back(position_buffer))
    /\ interpolate_position(position_buffer, -1000)
           = second(front(position_buffer))
    /\ interpolate_position(position_buffer, 7000000)
           = second(back(position_buffer))

-----------------------------------------------------------------------------
(* C2: with the two writers and the readers running concurrently, at most  *)
(* one thread is between the construction and the destruction of its       *)
(* lock_guard, that thread owns data_mutex, and every step that changes a  *)
(* buffer or advances a query's scan is taken by the owner of data_mutex.  *)
OnlyOwnerMoves ==
    /\ data_mutex \in Threads
    /\ InSection(data_mutex)
    /\ \A u \in Threads \ {data_mutex} :
           pc'[u] = pc[u] /\ frame'[u] = frame[u]

C2_MutualExclusion ==
    /\ [](\A t, u \in Threads : (InSection(t) /\ InSection(u)) => t = u)
    /\ [](\A t \in Threads : InSection(t) => data_mutex = t)
    /\ [][(managerVars' # managerVars
            \/ \E r \in Readers : pc[r] = "scan" /\ frame'[r] # frame[r])
          => OnlyOwnerMoves]_vars

(* One thread is inside its critical section over non-empty buffers while  *)
(* every other thread waits for the mutex.                                 *)
C2_Witness ==
    /\ density_buffer # <<>>
    /\ position_buffer # <<>>
    /\ \E t \in Threads :
           /\ InSection(t)
           /\ data_mutex = t
           /\ \A u \in Threads \ {t} : pc[u] = "lock"

-----------------------------------------------------------------------------
(* C3: the aggregate a query computes equals CalculateDensityValues        *)
(* applied to the two buffers as they stood when the query took the lock,  *)
(* an instant at which no insert was under way; the buffers do not change  *)
(* while the query scans them.                                             *)
C3_ConsistentSnapshot ==
    \A r \in Readers :
        /\ pc[r] \in ReaderSection =>
               /\ snapshot[r].quiescent
               /\ density_buffer = snapshot[r].db
               /\ position_buffer = snapshot[r].pb
        /\ frame[r].result # <<>> =>
               frame[r].result =
                   CalculateDensityValues(snapshot[r].db, snapshot[r].pb,
                                          frame[r].a, frame[r].b)

(* A query has computed a non-zero aggregate over the retained density      *)
(* samples while both writers wait for the mutex with further inserts.     *)
C3_Witness ==
    \E r \in Readers :
        /\ frame[r].result # <<>>
        /\ frame[r].result[3] # 0
        /\ density_buffer # <<>>
        /\ position_buffer # <<>>
        /\ \A w \in Writers : pc[w] = "lock"

-----------------------------------------------------------------------------
(* C4: for every non-empty vector the three algorithms of                  *)
(* MedianStrategy::compute return the same integer, the lower-middle       *)
(* element (0-based index floor((n-1)/2) in ascending order).              *)
C4_MedianAgreement ==
    (DOMAIN medians = Algorithms /\ data # <<>>) =>
        /\ medians["NthElement"] = medians["FullSort"]
        /\ medians["FullSort"] = medians["HeapMedian"]
        /\ medians["HeapMedian"] = LowerMiddle(data)

-----------------------------------------------------------------------------
(* C11: on a position buffer ordered by timestamp whose values are         *)
(* monotonic, for all t1 < t2 < t3 within the retained time range the      *)
(* value of interpolate_position(t2) lies between those of                 *)
(* interpolate_position(t1) and interpolate_position(t3), inclusive.       *)
Monotonic(buf) ==
    \/ \A i \in 1..(Len(buf) - 1) : second(buf[i]) <= second(buf[i + 1])
    \/ \A i \in 1..(Len(buf) - 1) : second(buf[i]) >= second(buf[i + 1])

Between(x, a, b) == (a <= x /\ x <= b) \/ (b <= x /\ x <= a)

C11_InterpolationMonotonic ==
    (position_buffer # <<>> /\ Ordered(position_buffer)
       /\ Monotonic(position_buffer)) =>
        \A t1, t2, t3 \in DOMAIN interpolated :
            (/\ first(front(position_buffer)) <= t1
             /\ t1 < t2
             /\ t2 < t3
             /\ t3 <= first(back(position_buffer)))
            => Between(interpolated[t2], interpolated[t1], interpolated[t3])

(* C15: for t strictly between the earliest and the latest retained        *)
(* position timestamps, interpolate_position(t) is                         *)
(* before.value + (t - before.timestamp) * (after.value - before.value)    *)
(* / (after.timestamp - before.timestamp) in exact arithmetic, truncated   *)
(* toward zero, for the adjacent pair before (last sample earlier than t)  *)
(* and after (first sample not earlier than t); at the timestamp of a      *)
(* retained sample this is the sample's value.                             *)

(* The position of the first sample with a timestamp not less than t. *)
FirstNotBefore(buf, t) ==
    CHOOSE i \in 1..Len(buf) :
        /\ first(buf[i]) >= t
        /\ \A j \in 1..(i - 1) : first(buf[j]) < t

(* bv + n * (av - bv) / d truncated toward zero, for 0 < n <= d, without   *)
(* an intermediate value beyond the operands' range: av = qa * d + ra and  *)
(* bv = qb * d + rb give (d - n) * qb + n * qa + rb + n * (ra - rb) / d.   *)
ExactInterpolation(before, after, t) ==
    LET n == t - first(before)
        d == first(after) - first(before)
        qa == second(after) \div d
        ra == second(after) % d
        qb == second(before) \div d
        rb == second(before) % d
        whole == (d - n) * qb + n * qa + rb + ((n * (ra - rb)) \div d)
        rest == (n * (ra - rb)) % d
    IN  IF whole < 0 /\ rest # 0 THEN whole + 1 ELSE whole

StrictlyInside(buf, t) ==
    buf # <<>> /\ first(front(buf)) < t /\ t < first(back(buf))

C15_InterpolationFormula ==
    Ordered(position_buffer) =>
        \A t \in DOMAIN interpolated :
            StrictlyInside(position_buffer, t) =>
                LET it == FirstNotBefore(position_buffer, t)
                IN  interpolated[t] =
                        ExactInterpolation(position_buffer[it - 1],
                                           position_buffer[it], t)

-----------------------------------------------------------------------------
(* C13: a query scans every retained density sample in retained order and  *)
(* takes a sample's value into the working set if and only if              *)
(* min_position <= p <= max_position, p being the position interpolated at *)
(* the sample's timestamp, both ends included; a query with                *)
(* min_position > max_position selects nothing.  The values a query        *)
(* returns are those of exactly that working set.                          *)
RECURSIVE SumOf(_)
SumOf(v) == IF v = <<>> THEN 0 ELSE Head(v) + SumOf(Tail(v))

SmallestOf(v) ==
    CHOOSE x \in {v[i] : i \in 1..Len(v)} : \A j \in 1..Len(v) : x <= v[j]

C13_WorkingSetMembership ==
    IsQuery(last_call) =>
        LET w == WorkingSet(last_call.a, last_call.b)
        IN  /\ last_call.a > last_call.b => (w = <<>> /\ Result = <<0, 0, 0>>)
            /\ w = <<>> => Result = <<0, 0, 0>>
            /\ w # <<>> =>
                   Result = <<TruncDiv(SumOf(w), Len(w)), SmallestOf(w),
                              NthValue(w, Len(w) \div 2)>>

(* A query has taken a sample whose position is the lower end of the       *)
(* interval and one whose position is the upper end, and has left out      *)
(* another.                                                                *)
C13_Witness ==
    /\ IsQuery(last_call)
    /\ position_buffer # <<>>
    /\ \E s \in Samples(density_buffer) :
           interpolate_position(position_buffer, first(s)) = last_call.a
    /\ \E s \in Samples(density_buffer) :
           interpolate_position(position_buffer, first(s)) = last_call.b
    /\ \E s \in Samples(density_buffer) :
           ~Qualifies(s, last_call.a, last_call.b)
    /\ Len(WorkingSet(last_call.a, last_call.b)) = 2
    /\ mean_density # min_density

-----------------------------------------------------------------------------
(* C14: for a non-empty working set of int values, negative ones and sums  *)
(* beyond the int range included, the min returned is the smallest value   *)
(* of the working set and the mean returned is the exact sum divided by    *)
(* the count, truncated toward zero.                                       *)

(* The exact sum of v is n * whole + rest for n = Len(v), whole the sum of *)
(* the quotients and rest the sum of the remainders of the values by n.    *)
ExactMean(v) ==
    LET n == Len(v)
        whole == SumOf([i \in 1..n |-> v[i] \div n] \o <<>>)
        rest == SumOf([i \in 1..n |-> v[i] % n] \o <<>>)
        floor == whole + (rest \div n)
    IN  IF floor < 0 /\ rest % n # 0 THEN floor + 1 ELSE floor

C14_MeanAndMin ==
    (IsQuery(last_call) /\ WorkingSet(last_call.a, last_call.b) # <<>>) =>
        /\ min_density = SmallestOf(WorkingSet(last_call.a, last_call.b))
        /\ mean_density = ExactMean(WorkingSet(last_call.a, last_call.b))

-----------------------------------------------------------------------------
(* The trimming properties compare timestamps with T - WINDOW_US as a      *)
(* number, which lies below every int when T < INT_MIN + WINDOW_US.        *)
Expired(ts, T) == T >= INT_MIN + WINDOW_US /\ ts < T - WINDOW_US

(* buf without its head samples older than T - WINDOW_US. *)
RECURSIVE WithoutExpiredHead(_, _)
WithoutExpiredHead(buf, T) ==
    IF buf # <<>> /\ Expired(first(front(buf)), T)
    THEN WithoutExpiredHead(pop_front(buf), T)
    ELSE buf

(* C16: an insert with timestamp T on one stream removes from the other    *)
(* stream's buffer exactly the head samples with a timestamp below         *)
(* T - WINDOW_US and changes it in no other way.                           *)
C16_CrossStreamTrimming ==
    [][/\ last_call'.op = "density" =>
            position_buffer' = WithoutExpiredHead(position_buffer, last_call'.b)
       /\ last_call'.op = "position" =>
            density_buffer' = WithoutExpiredHead(density_buffer, last_call'.b)]_vars

(* C17: an insert with timestamp T removes from neither buffer a sample    *)
(* with a timestamp of T - WINDOW_US or more, and the samples that remain  *)
(* keep their order: what is left of each buffer is a tail of it that      *)
(* holds every such sample.                                                *)
KeepsWindow(old, new, T) ==
    \E k \in 0..Len(old) :
        /\ new = SubSeq(old, k + 1, Len(old))
        /\ \A i \in 1..k : Expired(first(old[i]), T)

C17_NoOverEviction ==
    [][/\ last_call'.op = "density" =>
            /\ KeepsWindow(position_buffer, position_buffer', last_call'.b)
            /\ KeepsWindow(density_buffer,
                           SubSeq(density_buffer', 1, Len(density_buffer') - 1),
                           last_call'.b)
       /\ last_call'.op = "position" =>
            /\ KeepsWindow(density_buffer, density_buffer', last_call'.b)
            /\ KeepsWindow(position_buffer,
                           SubSeq(position_buffer', 1, Len(position_buffer') - 1),
                           last_call'.b)]_vars

-----------------------------------------------------------------------------
(* C18: each buffer is changed only by appending one sample at its tail or *)
(* by removing its head sample, and, the timestamps passed to each         *)
(* stream's insert being non-decreasing, each buffer is ordered by         *)
(* non-decreasing timestamp in every reachable state, whatever the         *)
(* interleaving of the two writers.                                        *)
TailAppend(old, new) ==
    new # <<>> /\ old = SubSeq(new, 1, Len(new) - 1)

HeadRemove(old, new) ==
    old # <<>> /\ new = pop_front(old)

BufferStep(old, new) ==
    new = old \/ TailAppend(old, new) \/ HeadRemove(old, new)

C18_BufferShape ==
    /\ [](Ordered(density_buffer) /\ Ordered(position_buffer))
    /\ [][/\ BufferStep(density_buffer, density_buffer')
          /\ BufferStep(position_buffer, position_buffer')]_vars

(* Both writers have made their inserts: the position buffer has lost its  *)
(* first sample at the head, the density buffer holds two samples in       *)
(* timestamp order.                                                        *)
C18_Witness ==
    /\ pc[PositionWriter] = "idle"
    /\ frame[PositionWriter].calls = MaxCalls
    /\ Len(position_buffer) < MaxCalls
    /\ pc[DensityWriter] = "idle"
    /\ Len(density_buffer) = 2
    /\ first(density_buffer[1]) < first(density_buffer[2])

-----------------------------------------------------------------------------
(* C19: in HeapMedian, after each element of the input has been inserted   *)
(* and the heaps rebalanced, lower holds as many elements as upper or one  *)
(* more, every element of lower is <= every element of upper, and lower    *)
(* is not empty when its top is read.                                      *)
C19_TwoHeapInvariant ==
    heap_i >= 1 =>
        /\ Len(lower) + Len(upper) = heap_i
        /\ Len(lower) \in {Len(upper), Len(upper) + 1}
        /\ \A i \in 1..Len(lower) : \A j \in 1..Len(upper) :
               lower[i] <= upper[j]
        /\ lower # <<>>

(* Three elements are in: two in lower, one in upper, the tops apart. *)
C19_Witness ==
    /\ heap_i = 3
    /\ Len(lower) = 2
    /\ Len(upper) = 1
    /\ top(lower) < top(upper)

-----------------------------------------------------------------------------
(* C20 as stated: with timestamps non-decreasing within each stream and    *)
(* skewed in any way between the streams, every sample retained in either  *)
(* buffer has a timestamp >= M - WINDOW_US, where M is the largest         *)
(* timestamp retained in either buffer.                                    *)
LargestTime(S) == CHOOSE m \in {first(s) : s \in S} : \A s \in S : first(s) <= m

WithinWindowOf(S, B) ==
    B # {} => \A s \in S : first(s) >= LargestTime(B) - WINDOW_US

C20_SingleWindow ==
    WithinWindowOf(Samples(density_buffer) \cup Samples(position_buffer),
                   Samples(density_buffer) \cup Samples(position_buffer))

(* C20 amended: every sample retained in a buffer has a timestamp          *)
(* >= M - WINDOW_US, where M is the largest timestamp retained in that     *)
(* same buffer.                                                            *)
C20_WindowPerBuffer ==
    /\ WithinWindowOf(Samples(density_buffer), Samples(density_buffer))
    /\ WithinWindowOf(Samples(position_buffer), Samples(position_buffer))

(* Each buffer has lost a sample and the two buffers retain samples more   *)
(* than WINDOW_US apart.                                                   *)
C20_Witness ==
    /\ n_density > Len(density_buffer)
    /\ n_position > Len(position_buffer)
    /\ density_buffer # <<>>
    /\ position_buffer # <<>>
    /\ ~C20_SingleWindow

-----------------------------------------------------------------------------
(* C12: the threads never deadlock, and under fair scheduling of the       *)
(* threads and of the lock every call of an insert or of a query returns   *)
(* (the trim loops end, the mutex is released), so that the harness of     *)
(* writers and readers runs to completion.                                 *)
CallsOf(t) == IF t \in Readers THEN MaxQueries ELSE MaxCalls

Completed == \A t \in Threads : pc[t] = "idle" /\ frame[t].calls = CallsOf(t)

C12_Progress ==
    /\ [](~Completed => ENABLED NextThreads)
    /\ \A t \in Threads : (pc[t] # "idle") ~> (pc[t] = "idle")
    /\ <>[]Completed

(* Every thread has made all its calls, and the trim loops have removed    *)
(* samples from both buffers on the way.                                   *)
C12_Witness ==
    /\ Completed
    /\ Len(density_buffer) < MaxCalls
    /\ Len(position_buffer) < MaxCalls

-----------------------------------------------------------------------------
(* C22: for every int timestamp passed to an insert, negative ones         *)
(* included, the threshold now - WINDOW_US is computed within the int      *)
(* range, and the insert removes exactly the samples older than the number *)
(* now - 5000000 and then appends the new sample.                          *)

(* The code's threshold is the number now - WINDOW_US: it has not wrapped. *)
ThresholdInRange(now_us) == IntSub(now_us, WINDOW_US) < now_us

WithoutExpired(buf, T) ==
    SelectSeq(buf, LAMBDA s : ~Expired(first(s), T))

C22_TrimArithmetic ==
    [][/\ IsInsert(last_call') => ThresholdInRange(last_call'.b)
       /\ last_call'.op = "density" =>
            /\ density_buffer' =
                   Append(WithoutExpired(density_buffer, last_call'.b),
                          <<last_call'.b, last_call'.a>>)
            /\ position_buffer' = WithoutExpired(position_buffer, last_call'.b)
       /\ last_call'.op = "position" =>
            /\ position_buffer' =
                   Append(WithoutExpired(position_buffer, last_call'.b),
                          <<last_call'.b, last_call'.a>>)
            /\ density_buffer' = WithoutExpired(density_buffer, last_call'.b)]_vars

-----------------------------------------------------------------------------
(* C21: whenever interpolate_position reaches its interpolation branch on  *)
(* a position buffer ordered by non-decreasing timestamp, repeated         *)
(* timestamps allowed, the sample 'after' that is located is not the first *)
(* element and not past the end, 'before' exists, and after.first -        *)
(* before.first, as the code computes it, is above zero.                   *)
C21_InterpolationWellDefined ==
    Ordered(position_buffer) =>
        \A t \in DOMAIN interpolated :
            LET it == interpolated[t]
            IN  /\ it > 1
                /\ it <= Len(position_buffer)
                /\ IntSub(first(position_buffer[it]),
                          first(position_buffer[it - 1])) > 0

(* The branch has been reached on a buffer that holds one timestamp twice, *)
(* at a time that is the timestamp of a retained sample.                   *)
C21_Witness ==
    /\ \E i \in 1..(Len(position_buffer) - 1) :
           first(position_buffer[i]) = first(position_buffer[i + 1])
    /\ \E t \in DOMAIN interpolated :
           \E i \in 1..Len(position_buffer) : first(position_buffer[i]) = t

====
